---- MODULE Spec2Model ----
(***************************************************************************)
(* Push-to-talk dictation (src/voice_to_text.py): class                    *)
(* DictationTranscriber.  Three kinds of threads share the object's fields *)
(* without any lock:                                                       *)
(*   "L"  the pynput listener thread, which runs on_hotkey for one key     *)
(*        press at a time (start_recording / stop_recording),              *)
(*   "M"  the main thread, which waits in listener.join() and on           *)
(*        KeyboardInterrupt runs stop_recording itself and then exits,     *)
(*   k    the daemon thread running _record that start_recording number k  *)
(*        spawned.                                                         *)
(* Every step below is one read or write of the shared fields (or one call *)
(* of an external collaborator); time.sleep is no synchronisation, so the  *)
(* steps of different threads interleave freely.                           *)
(***************************************************************************)
EXTENDS Integers, Sequences, FiniteSets, TLC

\* ---------------------------------------------------------------- bounds
MaxPresses == 3      \* keys pressed in one run: the hotkey, and Ctrl+C
MaxFrames == 2       \* chunks the capture loops append to one buffer
MaxPending == 1      \* presses queued while the listener thread is busy

\* ------------------------------------------------------ program constants
CHUNK == 1024
RATE == 16000
max_consecutive_errors == 5
Int16Scale == 32768
SilenceNum == 1
SilenceDen == 1000

\* int(RATE / CHUNK * 1.0)
warmup_chunks == RATE \div CHUNK

\* Mean absolute int16 sample value of a chunk; a chunk stands for CHUNK
\* samples of that magnitude.  16/32768 ~ 0.0005, 33/32768 ~ 0.00101.
SampleLevels == {16, 33}

Threads == {"L", "M"}
Ids == 1..MaxPresses
None == 0

\* Segment texts the engine may yield, as sequences of characters.
EngineResults ==
  { << >>,
    << <<" ">> >>,
    << <<"a", " ">>, <<" ", "b">> >> }

VARIABLES
  is_recording,     \* self.is_recording
  audio_frames,     \* self.audio_frames: sequence of chunks [by, level]
  recording_error,  \* self.recording_error
  stream,           \* self.stream: handle id, None before the first open
  p,                \* self.p: PyAudio instance id, None before the first
  dev,              \* state of each stream handle: "none", "open", "closed"
  nsess,            \* start events accepted so far (the current session's number)
  presses,          \* keys pressed so far
  pending,          \* presses queued for the listener thread, each tagged with
                    \* whether a stop_recording was processing when it arrived
  evt,              \* the press the listener thread is handling
  pc,               \* position of "L" and "M"
  loc,              \* per thread: the locals of the stop_recording it runs,
                    \* and the outcome of the handler it ran last
  warm_i,           \* warm-up reads done by the current start_recording
  loop,             \* per capture thread: [pc, errs, h]
  engine_calls,     \* calls of model.transcribe: the session of each
  inject_calls,     \* calls of keyboard_controller.type: [sess, text]
  cues,             \* cues the current start_recording played: [sess, warm]
  faulted,          \* sessions whose capture loop took a fatal capture fault
                    \* while the session was capturing
  close_faulted     \* sessions whose capture loop counted its fifth OSError
                    \* in a row from a read of the session's own stream after
                    \* stop_recording had closed it

vars == << is_recording, audio_frames, recording_error, stream, p, dev,
           nsess, presses, pending, evt, pc, loc, warm_i, loop,
           engine_calls, inject_calls, cues, faulted, close_faulted >>

shared == << is_recording, audio_frames, recording_error, stream, p, dev >>
logs == << engine_calls, inject_calls, cues, faulted, close_faulted >>

NoLoc == [sess |-> 0, audio_np |-> << >>, segments |-> << >>, outcome |-> "none"]
NoEvt == [proc |-> FALSE]

Init ==
  /\ is_recording = FALSE
  /\ audio_frames = << >>
  /\ recording_error = FALSE
  /\ stream = None
  /\ p = None
  /\ dev = [k \in Ids |-> "none"]
  /\ nsess = 0
  /\ presses = 0
  /\ pending = << >>
  /\ evt = NoEvt
  /\ pc = [t \in Threads |-> IF t = "L" THEN "idle" ELSE "join"]
  /\ loc = [t \in Threads |-> NoLoc]
  /\ warm_i = 0
  /\ loop = [k \in Ids |-> [pc |-> "unborn", errs |-> 0, h |-> None]]
  /\ engine_calls = << >>
  /\ inject_calls = << >>
  /\ cues = << >>
  /\ faulted = {}
  /\ close_faulted = {}

\* The process is alive until the main thread leaves start(); the listener
\* and the capture threads are daemon threads and die with it.
Running == pc["M"] # "exited"

\* pc values of a stop_recording past its is_recording check.
StopPcs == {"t121", "t130", "t140", "t146", "t165", "t173"}
Processing == \E t \in Threads : pc[t] \in StopPcs

\* ------------------------------------------------------- pure functions
RECURSIVE lstrip(_)
lstrip(s) == IF s # << >> /\ Head(s) = " " THEN lstrip(Tail(s)) ELSE s

RECURSIVE rstrip(_)
rstrip(s) ==
  IF s # << >> /\ s[Len(s)] = " " THEN rstrip(SubSeq(s, 1, Len(s) - 1)) ELSE s

\* segment.text.strip()
strip(s) == rstrip(lstrip(s))

\* The join without the strip: " ".join([segment.text for ...]).
RECURSIVE join_segments_unstripped(_)
join_segments_unstripped(segs) ==
  IF segs = << >> THEN << >>
  ELSE IF Len(segs) = 1 THEN segs[1]
  ELSE segs[1] \o <<" ">> \o join_segments_unstripped(Tail(segs))

\* " ".join([segment.text.strip() for segment in segments])
RECURSIVE join_segments(_)
join_segments(segs) ==
  IF segs = << >> THEN << >>
  ELSE IF Len(segs) = 1 THEN strip(segs[1])
  ELSE strip(segs[1]) \o <<" ">> \o join_segments(Tail(segs))

RECURSIVE SumLevels(_)
SumLevels(w) == IF w = << >> THEN 0 ELSE Head(w).level + SumLevels(Tail(w))

RECURSIVE MaxLevel(_)
MaxLevel(w) ==
  IF w = << >> THEN 0
  ELSE LET m == MaxLevel(Tail(w)) IN IF Head(w).level > m THEN Head(w).level ELSE m

\* The volume test with the peak taken for the mean: .max() for .mean().
volume_too_quiet_peak(w) == MaxLevel(w) * SilenceDen < SilenceNum * Int16Scale

\* np.abs(audio_np).mean() < 0.001 with audio_np = int16 / 32768.0:
\* sum|x| / (n * 32768) < 1/1000, in integers.
volume_too_quiet(w) ==
  SumLevels(w) * SilenceDen < SilenceNum * Int16Scale * Len(w)

\* PyAudio.terminate() closes the streams the instance opened; stream k is
\* the one instance k opened.
Closed(d, hs) == [k \in Ids |-> IF k \in hs /\ d[k] = "open" THEN "closed" ELSE d[k]]

\* ------------------------------------------------------------ the events
\* The user presses the hotkey; pynput queues it for the listener thread.
Press ==
  /\ Running
  /\ presses < MaxPresses
  /\ Len(pending) < MaxPending
  /\ presses' = presses + 1
  /\ pending' = Append(pending, [proc |-> Processing])
  /\ UNCHANGED << shared, nsess, evt, pc, loc, warm_i, loop, logs >>

\* start(), lines 236-239: Ctrl+C raises KeyboardInterrupt in the main
\* thread's listener.join(); if self.is_recording: self.stop_recording()
Interrupt ==
  /\ pc["M"] = "join"
  /\ presses < MaxPresses
  /\ presses' = presses + 1
  /\ pc' = [pc EXCEPT !["M"] = IF is_recording THEN "t118" ELSE "exited"]
  /\ UNCHANGED << shared, nsess, pending, evt, loc, warm_i, loop, logs >>

\* on_hotkey, lines 202-206, for the next queued press.
on_hotkey ==
  /\ Running
  /\ pc["L"] = "idle"
  /\ pending # << >>
  /\ evt' = Head(pending)
  /\ pending' = Tail(pending)
  /\ pc' = [pc EXCEPT !["L"] = IF ~is_recording THEN "s38" ELSE "t118"]
  /\ loc' = [loc EXCEPT !["L"] = NoLoc]
  /\ UNCHANGED << shared, nsess, presses, warm_i, loop, logs >>

\* Thread t's handler returns with outcome o: on_hotkey goes back to the
\* listener loop; start() leaves the with block and the process exits.
Leave(t, o) ==
  /\ pc' = [pc EXCEPT ![t] = IF t = "L" THEN "idle" ELSE "exited"]
  /\ loc' = [loc EXCEPT ![t] = [NoLoc EXCEPT !.sess = loc[t].sess, !.outcome = o]]
  /\ evt' = IF t = "L" THEN NoEvt ELSE evt

\* A caller other than on_hotkey invokes the public method start_recording
\* (line 36) on the listener thread, whatever is_recording is.
call_start_recording ==
  /\ Running
  /\ pc["L"] = "idle"
  /\ presses < MaxPresses
  /\ presses' = presses + 1
  /\ pc' = [pc EXCEPT !["L"] = "s38"]
  /\ loc' = [loc EXCEPT !["L"] = NoLoc]
  /\ UNCHANGED << shared, nsess, pending, evt, warm_i, loop, logs >>

\* A caller other than on_hotkey invokes the public method stop_recording
\* (line 116) on the listener thread, whatever is_recording is.
call_stop_recording ==
  /\ Running
  /\ pc["L"] = "idle"
  /\ presses < MaxPresses
  /\ presses' = presses + 1
  /\ pc' = [pc EXCEPT !["L"] = "t118"]
  /\ loc' = [loc EXCEPT !["L"] = NoLoc]
  /\ UNCHANGED << shared, nsess, pending, evt, warm_i, loop, logs >>

\* ------------------------------------------------------- start_recording
\* start_recording without the guard of lines 38-39.
start_recording_38_unguarded ==
  /\ Running
  /\ pc["L"] = "s38"
  /\ is_recording' = TRUE
  /\ audio_frames' = << >>
  /\ recording_error' = FALSE
  /\ nsess' = nsess + 1
  /\ warm_i' = 0
  /\ cues' = << >>
  /\ pc' = [pc EXCEPT !["L"] = "s46"]
  /\ UNCHANGED << evt, loc, stream, p, dev, presses, pending, loop,
                  engine_calls, inject_calls, faulted, close_faulted >>

\* lines 38-43
start_recording_38 ==
  /\ Running
  /\ pc["L"] = "s38"
  /\ IF is_recording
       THEN /\ Leave("L", "already_recording")
            /\ UNCHANGED << is_recording, audio_frames, recording_error, nsess,
                            warm_i, cues >>
       ELSE /\ is_recording' = TRUE
            /\ audio_frames' = << >>
            /\ recording_error' = FALSE
            /\ nsess' = nsess + 1
            /\ warm_i' = 0
            /\ cues' = << >>
            /\ pc' = [pc EXCEPT !["L"] = "s46"]
            /\ UNCHANGED << evt, loc >>
  /\ UNCHANGED << stream, p, dev, presses, pending, loop,
                  engine_calls, inject_calls, faulted, close_faulted >>

\* lines 86-90, the except of start_recording: the flag is cleared and
\* self.p is terminated, which closes the stream it opened.
except_86(o) ==
  /\ is_recording' = FALSE
  /\ dev' = Closed(dev, {p'})
  /\ Leave("L", o)

\* What acquiring the device can do: PyAudio() raises (line 46, outside the
\* try), self.p.open raises (lines 49-56, inside it), or both succeed.
OpenResults == {"ok", "init_raise", "open_raise"}

\* lines 46-56
start_recording_46 ==
  /\ Running
  /\ pc["L"] = "s46"
  /\ \E r \in OpenResults :
       CASE r = "ok" ->
              /\ p' = nsess
              /\ stream' = nsess
              /\ dev' = [dev EXCEPT ![nsess] = "open"]
              /\ pc' = [pc EXCEPT !["L"] = "s60"]
              /\ UNCHANGED << is_recording, evt, loc >>
         [] r = "init_raise" ->
              \* on_hotkey's handler (lines 207-208) only prints
              /\ Leave("L", "open_fault")
              /\ UNCHANGED << is_recording, p, stream, dev >>
         [] r = "open_raise" ->
              /\ p' = nsess
              /\ except_86("open_fault")
              /\ UNCHANGED stream
  /\ UNCHANGED << audio_frames, recording_error,
                  nsess, presses, pending, warm_i, loop, logs >>

\* What the two runs of paplay can do: both return (whatever their exit
\* status: no check=True), or subprocess.run raises at the first or at the
\* second (paplay cannot be started), which the except of line 86 takes.
CueResults == {"ok", "raise1", "raise2"}

\* The cues that were played, for the result r.
cues_played(r) ==
  LET c == [sess |-> nsess, warm |-> warm_i] IN
  CASE r = "ok" -> << c, c >>
    [] r = "raise1" -> << >>
    [] r = "raise2" -> << c >>

\* lines 58-69: first cue, time.sleep(0.5), second cue
start_recording_60 ==
  /\ Running
  /\ pc["L"] = "s60"
  /\ \E r \in CueResults :
       /\ cues' = cues \o cues_played(r)
       /\ IF r = "ok"
            THEN /\ pc' = [pc EXCEPT !["L"] = "s73"]
                 /\ UNCHANGED << is_recording, dev, evt, loc, p >>
            ELSE /\ UNCHANGED p
                 /\ except_86("cue_fault")
  /\ UNCHANGED << audio_frames, recording_error, stream,
                  nsess, presses, pending, warm_i, loop,
                  engine_calls, inject_calls, faulted, close_faulted >>

\* lines 71-84: the warm-up loop, warmup_chunks reads on this thread (each
\* chunk is discarded and whatever a read raises is swallowed by the bare
\* except, so the loop changes no field whatever the device does), then the
\* capture thread is started.
start_recording_73 ==
  /\ Running
  /\ pc["L"] = "s73"
  /\ warm_i' = warm_i + warmup_chunks
  /\ loop' = [loop EXCEPT ![nsess] = [pc |-> "while", errs |-> 0, h |-> None]]
  /\ Leave("L", "recording")
  /\ UNCHANGED << shared, nsess, presses, pending, logs >>

\* --------------------------------------------------------------- _record
\* A capture thread that has left _record; its locals are gone.
Ended == [pc |-> "done", errs |-> 0, h |-> None]

\* line 97: while self.is_recording, and the call of self.stream.read
record_97(k) ==
  /\ Running
  /\ loop[k].pc = "while"
  /\ loop' = [loop EXCEPT ![k] =
       IF is_recording THEN [@ EXCEPT !.pc = "read", !.h = stream]
                       ELSE Ended]
  /\ UNCHANGED << shared, nsess, presses, pending, evt, pc, loc, warm_i, logs >>

\* lines 99-101: the read returns a chunk, which is appended
record_100(k) ==
  /\ Running
  /\ loop[k].pc = "read"
  /\ dev[loop[k].h] = "open"
  /\ Len(audio_frames) < MaxFrames
  /\ \E l \in SampleLevels :
       audio_frames' = Append(audio_frames, [by |-> k, level |-> l])
  /\ loop' = [loop EXCEPT ![k] = [pc |-> "while", errs |-> 0, h |-> None]]
  /\ UNCHANGED << is_recording, recording_error, stream, p, dev,
                  nsess, presses, pending, evt, pc, loc, warm_i, logs >>

\* The test of line 104 with > for >=.
after_oserror_gt(consecutive_errors) ==
  IF consecutive_errors > max_consecutive_errors THEN "e106" ELSE "while"

\* lines 104, 109: after the OSError handler has counted one more error
after_oserror(consecutive_errors) ==
  IF consecutive_errors >= max_consecutive_errors THEN "e106" ELSE "while"

\* Session k is capturing: it is the current session and has not been told
\* to stop.
Capturing(k) == is_recording /\ nsess = k

\* lines 102-104, 109: the read raises OSError (an overflow, or the stream
\* was closed under it)
record_102(k) ==
  /\ Running
  /\ loop[k].pc = "read"
  /\ LET consecutive_errors == loop[k].errs + 1 IN
       /\ loop' = [loop EXCEPT ![k] = [pc |-> after_oserror(consecutive_errors),
                                       errs |-> consecutive_errors, h |-> None]]
       /\ faulted' = IF after_oserror(consecutive_errors) = "e106" /\ Capturing(k)
                       THEN faulted \cup {k} ELSE faulted
       /\ close_faulted' =
            IF /\ after_oserror(consecutive_errors) = "e106"
               /\ loop[k].h = k
               /\ dev[k] = "closed"
              THEN close_faulted \cup {k} ELSE close_faulted
  /\ UNCHANGED << shared, nsess, presses, pending, evt, pc, loc, warm_i,
                  engine_calls, inject_calls, cues >>

\* line 110: the read raises another exception
record_110(k) ==
  /\ Running
  /\ loop[k].pc = "read"
  /\ dev[loop[k].h] = "open"
  /\ loop' = [loop EXCEPT ![k] = [@ EXCEPT !.pc = "e106", !.h = None]]
  /\ faulted' = IF Capturing(k) THEN faulted \cup {k} ELSE faulted
  /\ UNCHANGED << shared, nsess, presses, pending, evt, pc, loc, warm_i,
                  engine_calls, inject_calls, cues, close_faulted >>

\* lines 105-108 and 111-114: self.recording_error = True;
\* self.is_recording = False; break
record_106(k) ==
  /\ Running
  /\ loop[k].pc = "e106"
  /\ recording_error' = TRUE
  /\ is_recording' = FALSE
  /\ loop' = [loop EXCEPT ![k] = Ended]
  /\ UNCHANGED << audio_frames, stream, p, dev,
                  nsess, presses, pending, evt, pc, loc, warm_i, logs >>

\* -------------------------------------------------------- stop_recording
\* stop_recording without the guard of lines 118-119.
stop_recording_118_unguarded(t) ==
  /\ Running
  /\ pc[t] = "t118"
  /\ pc' = [pc EXCEPT ![t] = "t121"]
  /\ loc' = [loc EXCEPT ![t] = [NoLoc EXCEPT !.sess = nsess]]
  /\ UNCHANGED << shared, nsess, presses, pending, evt, warm_i, loop, logs >>

\* lines 118-119
stop_recording_118(t) ==
  /\ Running
  /\ pc[t] = "t118"
  /\ IF ~is_recording
       THEN Leave(t, "not_recording")
       ELSE /\ pc' = [pc EXCEPT ![t] = "t121"]
            /\ loc' = [loc EXCEPT ![t] = [NoLoc EXCEPT !.sess = nsess]]
            /\ UNCHANGED evt
  /\ UNCHANGED << shared, nsess, presses, pending, warm_i, loop, logs >>

\* stop_recording without line 121: the flag is left set.
stop_recording_121_flag_kept(t) ==
  /\ Running
  /\ pc[t] = "t121"
  /\ pc' = [pc EXCEPT ![t] = "t130"]
  /\ UNCHANGED << shared, nsess, presses, pending, evt, loc, warm_i, loop, logs >>

\* lines 121-126: the flag is cleared; the sleep orders nothing
stop_recording_121(t) ==
  /\ Running
  /\ pc[t] = "t121"
  /\ is_recording' = FALSE
  /\ pc' = [pc EXCEPT ![t] = "t130"]
  /\ UNCHANGED << audio_frames, recording_error, stream, p, dev,
                  nsess, presses, pending, evt, loc, warm_i, loop, logs >>

\* lines 129-137: stop and close self.stream (what that raises is
\* swallowed), terminate self.p
stop_recording_130(t) ==
  /\ Running
  /\ pc[t] = "t130"
  /\ dev' = Closed(dev, {stream, p})
  /\ pc' = [pc EXCEPT ![t] = "t140"]
  /\ UNCHANGED << is_recording, audio_frames, recording_error, stream, p,
                  nsess, presses, pending, evt, loc, warm_i, loop, logs >>

\* lines 140-143
stop_recording_140(t) ==
  /\ Running
  /\ pc[t] = "t140"
  /\ IF recording_error
       THEN /\ audio_frames' = << >>
            /\ Leave(t, "faulted")
       ELSE /\ pc' = [pc EXCEPT ![t] = "t146"]
            /\ UNCHANGED << audio_frames, loc, evt >>
  /\ UNCHANGED << is_recording, recording_error, stream, p, dev,
                  nsess, presses, pending, warm_i, loop, logs >>

\* lines 146-160: no frames; else the waveform is built from the frames and
\* its volume tested
stop_recording_146(t) ==
  /\ Running
  /\ pc[t] = "t146"
  /\ IF audio_frames = << >>
       THEN Leave(t, "empty")
       ELSE IF volume_too_quiet(audio_frames)
         THEN Leave(t, "too_quiet")
         ELSE /\ pc' = [pc EXCEPT ![t] = "t165"]
              /\ loc' = [loc EXCEPT ![t] = [@ EXCEPT !.audio_np = audio_frames]]
              /\ UNCHANGED evt
  /\ UNCHANGED << shared, nsess, presses, pending, warm_i, loop, logs >>

\* The call of keyboard_controller.type for a non-empty text, else nothing
typed(t, text) ==
  IF text # << >> THEN << [sess |-> loc[t].sess, text |-> text] >> ELSE << >>

\* lines 165-171 and 183-186: the engine is called; it raises, or yields
\* segments.
stop_recording_165(t) ==
  /\ Running
  /\ pc[t] = "t165"
  /\ engine_calls' = Append(engine_calls, loc[t].sess)
  /\ \/ /\ Leave(t, "engine_error")
     \/ \E segs \in EngineResults :
          /\ loc' = [loc EXCEPT ![t] = [@ EXCEPT !.segments = segs]]
          /\ pc' = [pc EXCEPT ![t] = "t173"]
          /\ UNCHANGED evt
  /\ UNCHANGED << shared, nsess, presses, pending, warm_i, loop,
                  inject_calls, cues, faulted, close_faulted >>

\* lines 173-181 and type_text (lines 188-197): the segment texts are
\* stripped and joined; when the text is non-empty it is typed, which
\* succeeds or raises.
stop_recording_173(t) ==
  /\ Running
  /\ pc[t] = "t173"
  /\ LET text == join_segments(loc[t].segments) IN
       /\ inject_calls' = inject_calls \o typed(t, text)
       /\ IF text # << >>
            THEN \E ok \in BOOLEAN :
                   Leave(t, IF ok THEN "success" ELSE "inject_fail")
            ELSE Leave(t, "no_speech")
  /\ UNCHANGED << shared, nsess, presses, pending, warm_i, loop,
                  engine_calls, cues, faulted, close_faulted >>

\* ---------------------------------------------------------- specification
Next ==
  \/ Press
  \/ Interrupt
  \/ on_hotkey
  \/ start_recording_38
  \/ start_recording_46
  \/ start_recording_60
  \/ start_recording_73
  \/ \E k \in Ids : record_97(k)
  \/ \E k \in Ids : record_100(k)
  \/ \E k \in Ids : record_102(k)
  \/ \E k \in Ids : record_110(k)
  \/ \E k \in Ids : record_106(k)
  \/ \E t \in Threads : stop_recording_118(t)
  \/ \E t \in Threads : stop_recording_121(t)
  \/ \E t \in Threads : stop_recording_130(t)
  \/ \E t \in Threads : stop_recording_140(t)
  \/ \E t \in Threads : stop_recording_146(t)
  \/ \E t \in Threads : stop_recording_165(t)
  \/ \E t \in Threads : stop_recording_173(t)

Spec == Init /\ [][Next]_vars

\* The runs in which the operator never presses Ctrl+C: the main thread
\* stays in listener.join().
NextHotkey ==
  \/ Press
  \/ on_hotkey
  \/ start_recording_38
  \/ start_recording_46
  \/ start_recording_60
  \/ start_recording_73
  \/ \E k \in Ids : record_97(k)
  \/ \E k \in Ids : record_100(k)
  \/ \E k \in Ids : record_102(k)
  \/ \E k \in Ids : record_110(k)
  \/ \E k \in Ids : record_106(k)
  \/ stop_recording_118("L")
  \/ stop_recording_121("L")
  \/ stop_recording_130("L")
  \/ stop_recording_140("L")
  \/ stop_recording_146("L")
  \/ stop_recording_165("L")
  \/ stop_recording_173("L")

SpecHotkey == Init /\ [][NextHotkey]_vars

\* The runs in which the two public methods are called directly, in any
\* state, one call at a time on the listener thread.
NextCalls ==
  \/ call_start_recording
  \/ call_stop_recording
  \/ start_recording_38
  \/ start_recording_46
  \/ start_recording_60
  \/ start_recording_73
  \/ \E k \in Ids : record_97(k)
  \/ \E k \in Ids : record_100(k)
  \/ \E k \in Ids : record_102(k)
  \/ \E k \in Ids : record_110(k)
  \/ \E k \in Ids : record_106(k)
  \/ stop_recording_118("L")
  \/ stop_recording_121("L")
  \/ stop_recording_130("L")
  \/ stop_recording_140("L")
  \/ stop_recording_146("L")
  \/ stop_recording_165("L")
  \/ stop_recording_173("L")

SpecCalls == Init /\ [][NextCalls]_vars

\* ---------------------------------------------------------------- claims
\* A capture thread that can still read from a stream or append to
\* audio_frames; at "e106" only the two flag writes and the break are left.
Alive(k) == loop[k].pc \in {"while", "read"}

\* C1: at most one _record capture loop is alive at any time, also when a
\* start_recording is accepted after a stop_recording or after a fault.
C1_AtMostOneCaptureLoop == Cardinality({k \in Ids : Alive(k)}) <= 1

\* The sessions of the calls, in call order, never repeat and only grow.
StrictlyIncreasing(q) ==
  \A i \in DOMAIN q : \A j \in DOMAIN q : i < j => q[i] < q[j]

InjectedSessions == [i \in DOMAIN inject_calls |-> inject_calls[i].sess]

\* C2: whatever the interleaving of a hotkey-triggered and an
\* interrupt-triggered stop, the buffer of one session goes to the engine at
\* most once, its text is typed at most once, and the texts are typed in the
\* order the sessions were started.
C2_ExactlyOnceInOrder ==
  /\ StrictlyIncreasing(engine_calls)
  /\ StrictlyIncreasing(InjectedSessions)

\* C3: for a session whose capture loop took a fatal capture fault while
\* capturing (the fifth consecutive OSError, or another exception), the
\* engine is never invoked and nothing is typed.
C3_FaultedNeverTranscribed ==
  /\ \A i \in DOMAIN engine_calls : engine_calls[i] \notin faulted
  /\ \A i \in DOMAIN inject_calls : inject_calls[i].sess \notin faulted

\* pc values of a start_recording that has accepted its start event.
StartPcs == {"s46", "s60", "s73"}

\* C4: a hotkey press that arrived while a stop_recording was processing
\* starts no session, neither during the processing nor after it.
C4_ProcessingPressDropped == ~(evt.proc /\ pc["L"] \in StartPcs)

\* Outcomes of a stop_recording that accepted its stop event.
StopOutcomes ==
  {"faulted", "empty", "too_quiet", "engine_error", "no_speech",
   "inject_fail", "success"}

\* C5: from the return of a stop_recording that the listener thread ran for
\* an accepted stop event, on every outcome branch, until the next hotkey
\* press is handled: is_recording is false and the stream and the PyAudio
\* instance of the object are closed, so that press starts a new session.
C5_StopReturnsToIdle ==
  (pc["L"] = "idle" /\ loc["L"].outcome \in StopOutcomes)
    => /\ ~is_recording
       /\ \A k \in {stream, p} \ {None} : dev[k] # "open"

\* C5's case: a stop_recording returned after typing the text failed.
C5_Witness ==
  /\ pc["L"] = "idle"
  /\ loc["L"].outcome = "inject_fail"
  /\ dev[stream] = "closed"

\* C6: when acquiring the device fails in start_recording (lines 46-56), no
\* capture loop is spawned and, once the start event has been handled,
\* is_recording is false.
C6_OpenFailureLeavesIdle ==
  (pc["L"] = "idle" /\ loc["L"].outcome = "open_fault")
    => /\ ~is_recording
       /\ loop[nsess].pc = "unborn"

\* C7: the device is never opened while an earlier handle is unclosed: at
\* most one stream handle is open at any time.
C7_SingleOpenHandle == Cardinality({k \in Ids : dev[k] = "open"}) <= 1

\* The waveform a stop_recording hands to the engine holds only chunks that
\* the capture loop of the session being stopped read.
WaveOwn ==
  \A t \in Threads :
    pc[t] = "t165" =>
      \A i \in DOMAIN loc[t].audio_np : loc[t].audio_np[i].by = loc[t].sess

\* recording_error becomes true only by the capture loop of the current
\* session.
HealthOwn ==
  (recording_error' /\ ~recording_error)
    => (loop[nsess].pc = "e106" /\ loop'[nsess].pc = "done")

\* C8: no state is carried over between sessions: the waveform of a session
\* holds only chunks of its own capture loop, and its health is changed
\* only by its own capture loop.
C8_NoCarryOver == []WaveOwn /\ [][HealthOwn]_vars

\* C9: the process never exits while a capture loop is still capturing.
C9_NoExitWhileCapturing ==
  pc["M"] = "exited" => ~(is_recording /\ \E k \in Ids : Alive(k))

\* Mean absolute amplitude of the waveform below 0.001 of full scale.
MeanAbsBelowThreshold(w) == SumLevels(w) * 1000 < 32768 * Len(w)

\* C10: a stop_recording that finds the session healthy and its buffer
\* non-empty with mean absolute amplitude below 0.001 returns with the
\* too-quiet outcome, calling neither the engine nor the injector.
C10_TooQuietSkipsEngine ==
  [][\A t \in Threads :
       ( /\ pc[t] = "t146"
         /\ pc'[t] # "t146"
         /\ audio_frames # << >>
         /\ MeanAbsBelowThreshold(audio_frames) )
       => /\ loc'[t].outcome = "too_quiet"
          /\ engine_calls' = engine_calls
          /\ inject_calls' = inject_calls]_vars

\* C10's case: a stop_recording returned too-quiet from a buffer of two
\* chunks, one of them above the threshold on its own.
C10_Witness ==
  \E t \in Threads :
    /\ loc[t].outcome = "too_quiet"
    /\ Len(audio_frames) = 2
    /\ \E i \in DOMAIN audio_frames : ~MeanAbsBelowThreshold(<< audio_frames[i] >>)

\* The text of a segment without its leading and trailing blanks.
NonBlank(s) == {i \in DOMAIN s : s[i] # " "}
Trimmed(s) ==
  IF NonBlank(s) = {} THEN << >>
  ELSE SubSeq(s, CHOOSE i \in NonBlank(s) : \A j \in NonBlank(s) : i <= j,
                 CHOOSE i \in NonBlank(s) : \A j \in NonBlank(s) : i >= j)

\* The first n segment texts, each trimmed, in order, one blank between
\* neighbours.
RECURSIVE TrimmedJoined(_, _)
TrimmedJoined(segs, n) ==
  IF n = 0 THEN << >>
  ELSE IF n = 1 THEN Trimmed(segs[1])
  ELSE TrimmedJoined(segs, n - 1) \o <<" ">> \o Trimmed(segs[n])

\* C11: the injector is called for a session exactly when the text of the
\* segments the engine returned, each trimmed and joined in order by single
\* blanks, is non-empty, and then with exactly that text; otherwise the
\* outcome is no-speech and nothing is typed.  The injector is called
\* nowhere else.
C11_InjectIffText ==
  [][ /\ \A t \in Threads :
           (pc[t] = "t173" /\ pc'[t] # "t173") =>
             LET text == TrimmedJoined(loc[t].segments, Len(loc[t].segments)) IN
             IF text # << >>
               THEN /\ inject_calls' =
                         Append(inject_calls, [sess |-> loc[t].sess, text |-> text])
                    /\ loc'[t].outcome \in {"success", "inject_fail"}
               ELSE /\ inject_calls' = inject_calls
                    /\ loc'[t].outcome = "no_speech"
      /\ inject_calls' # inject_calls =>
           \E t \in Threads : pc[t] = "t173" /\ pc'[t] # "t173" ]_vars

\* C11's case: a text was typed whose segments had blanks to trim.
C11_Witness ==
  \E i \in DOMAIN inject_calls : inject_calls[i].text = <<"a", " ", "b">>

\* C12: start_recording called while is_recording is true returns at once
\* and leaves is_recording, audio_frames, recording_error, the stream and
\* PyAudio handles, the devices, the capture loops and the cues unchanged,
\* and counts no new session.
C12_StartWhileRecordingNoOp ==
  [][ (pc["L"] = "s38" /\ pc'["L"] # "s38" /\ is_recording) =>
        /\ pc'["L"] = "idle"
        /\ loc'["L"].outcome = "already_recording"
        /\ UNCHANGED << is_recording, audio_frames, recording_error, stream, p,
                        dev, loop, cues, nsess, warm_i >> ]_vars

\* C12's case: start_recording returned from its guard while a session with
\* a chunk in its buffer was recording and its capture loop was running.
C12_Witness ==
  /\ pc["L"] = "idle"
  /\ loc["L"].outcome = "already_recording"
  /\ is_recording
  /\ audio_frames # << >>
  /\ Alive(nsess)

\* C13: stop_recording called while is_recording is false returns at once:
\* no field of the object changes, no device is closed, no capture loop is
\* touched, and neither the engine nor the injector is called.
C13_StopWhileIdleNoOp ==
  [][ \A t \in Threads :
        (pc[t] = "t118" /\ pc'[t] # "t118" /\ ~is_recording) =>
          /\ pc'[t] \in {"idle", "exited"}
          /\ loc'[t].outcome = "not_recording"
          /\ UNCHANGED << is_recording, audio_frames, recording_error, stream, p,
                          dev, loop, nsess, engine_calls, inject_calls, cues >> ]_vars

\* C13's case: stop_recording returned from its guard while the object held
\* chunks and an open device that a stop would have closed.
C13_Witness ==
  /\ pc["L"] = "idle"
  /\ loc["L"].outcome = "not_recording"
  /\ audio_frames # << >>
  /\ stream # None
  /\ dev[stream] = "open"

\* C14: stop_recording reads audio_frames (the emptiness test of line 146
\* and the join of line 153) only after the capture loop of the session it
\* stops has terminated.
C14_ReadAfterLoopTerminated ==
  \A t \in Threads : pc[t] = "t146" => ~Alive(loc[t].sess)

\* C15: the engine is invoked for a session only if its capture loop had
\* terminated by the end of the grace period of line 124; a loop that is
\* still running has not.
C15_LateLoopNeverTranscribed ==
  \A i \in DOMAIN engine_calls : ~Alive(engine_calls[i])

\* C16: closing the device in stop_recording never turns the session being
\* stopped into a faulted one: no stop_recording reports a fault for a
\* session whose loop reached its error limit by reading the stream that the
\* stop had closed.
C16_CloseNeverFaults ==
  \A t \in Threads :
    loc[t].outcome = "faulted" => loc[t].sess \notin close_faulted

\* C17: a start_recording in which playing a cue failed still ends with the
\* session recording: is_recording true and its capture loop started.
C17_CueFailureSwallowed ==
  (pc["L"] = "idle" /\ loc["L"].outcome = "cue_fault")
    => (is_recording /\ loop[nsess].pc # "unborn")

\* C18: of the two cues of an accepted start the first is played before any
\* warm-up chunk is discarded and the second after all of them are.
C18_SecondCueAfterWarmup ==
  Len(cues) = 2 => (cues[1].warm = 0 /\ cues[2].warm = warmup_chunks)

\* C19: the listener thread performs no stream.read: the warm-up reads of
\* start_recording are not done by the thread that runs on_hotkey.
C19_ListenerNeverReads == warm_i = 0

\* The consecutive-error count of every capture loop is between 0 and 5.
ErrorCountInRange == \A k \in Ids : loop[k].errs \in 0..5

\* What a read of capture loop k leads to: a chunk appended and the count
\* back at 0; or a transient fault, the count one higher, the loop fatal
\* exactly when that makes 5 and otherwise still capturing with the flags
\* untouched; or another exception, fatal whatever the count.
ErrorCountStep ==
  \A k \in Ids :
    (loop[k].pc = "read" /\ loop'[k] # loop[k]) =>
      \/ /\ Len(audio_frames') = Len(audio_frames) + 1
         /\ audio_frames'[Len(audio_frames')].by = k
         /\ loop'[k].errs = 0
         /\ loop'[k].pc = "while"
      \/ /\ audio_frames' = audio_frames
         /\ loop'[k].errs = loop[k].errs + 1
         /\ loop'[k].pc = IF loop'[k].errs = 5 THEN "e106" ELSE "while"
         /\ UNCHANGED << is_recording, recording_error >>
      \/ /\ audio_frames' = audio_frames
         /\ loop'[k].errs = loop[k].errs
         /\ loop'[k].pc = "e106"

\* C20: the consecutive-error count stays in 0..5, a successful read resets
\* it to 0, a transient fault adds exactly 1, and transient faults make the
\* loop fatal exactly when the count reaches 5; in shorter runs the loop
\* keeps capturing.
C20_ConsecutiveErrorCount == []ErrorCountInRange /\ [][ErrorCountStep]_vars

\* C20's case: a loop that had appended a chunk reached the limit of 5.
C20_Witness ==
  \E k \in Ids :
    /\ loop[k].pc = "e106"
    /\ loop[k].errs = 5
    /\ \E i \in DOMAIN audio_frames : audio_frames[i].by = k

====
